---- MODULE Spec2Model ----
(***************************************************************************)
(* Model of the task lifecycle manager (codex-rs/core/src/tasks/mod.rs)    *)
(* and of the visualizer event forwarder (codex-rs/core/src/visualizer.rs).*)
(*                                                                         *)
(* Processes:                                                              *)
(*   - callers: host-side async calls of Session::spawn_task and           *)
(*     Session::abort_all_tasks, one await-delimited step per action;      *)
(*   - workers: the tokio task started by spawn_task for one sub_id        *)
(*     (runner.run, then Session::on_task_finished);                       *)
(*   - the forwarder: the tokio task started by AgentVisualizer::new;      *)
(*   - the sink: the external websocket endpoint, reachable or not.        *)
(* The senders of the channel live as long as the session, so the          *)
(* forwarder's `None => break` / `Disconnected` exits are outside the      *)
(* window that is modelled.                                                *)
(***************************************************************************)
EXTENDS Integers, Sequences, FiniteSets, TLC

(* ---- bounds ---------------------------------------------------------- *)
MaxSubs == 2        \* number of sub_ids the host spawns
MaxCallers == 2     \* concurrent host calls on the same session
QueueCap == 1       \* capacity of the mpsc channel (256 in the source)
MaxOutages == 1     \* how often the sink goes from reachable to unreachable
MaxSerFail == 1     \* number of events whose serialization fails
MaxEmits == 3       \* number of events emitted by direct calls of emit
MaxVizCallers == 1  \* concurrent host calls when the visualizer is on
MaxVizSubs == 1     \* sub_ids the host spawns when the visualizer is on
MaxQueryLen == 2    \* number of key=value pairs in the query of a URL

SubIds == 1..MaxSubs
Callers == 1..MaxCallers
VizCallers == 1..MaxVizCallers
NoSub == 0

(* TurnAbortReason values used by external abort_all_tasks calls; the     *)
(* reason passed by spawn_task is always "Replaced".                      *)
AbortReasons == {"Interrupted"}
(* Option<String> returned by runner.run *)
LastMessages == {"None", "Some"}

VARIABLES
    active_turn,   \* Session.active_turn: Option<ActiveTurn>, with its task map
    hostEvents,    \* per sub_id, the events with that id passed to
                   \* Session::send_event, in order
    runnerAborts,  \* per sub_id, number of SessionTask::abort calls
    replacedBy,    \* history: per sub_id, the sub_id whose spawn_task call
                   \* found it installed and unfinished (NoSub: none)
    wpc,           \* per sub_id, position of the spawned worker
    abortReq,      \* per sub_id, whether AbortHandle::abort was called
    wlast,         \* per sub_id, last_agent_message returned by run
    wev,           \* per sub_id, event stamped by the worker; it stays here
                   \* until sent, or for good if the worker is cancelled
    cpc,           \* per caller, position in spawn_task / abort_all_tasks
    csub,          \* per caller, sub_id being spawned (NoSub: plain abort)
    creason,       \* per caller, TurnAbortReason in use
    ctasks,        \* per caller, tasks taken from the turn, still to abort
    ccur,          \* per caller, task being aborted
    cev,           \* per caller, event stamped by the caller, not yet sent
    nextSub,       \* next fresh sub_id handed out by the host
    url,           \* the `url` argument of AgentVisualizer::new
    connect_url,   \* `connect_url`, the URL the forwarder connects to
    sender,        \* AgentVisualizer.sender is Some
    sequence,      \* AgentVisualizer.sequence (AtomicU64)
    queue,         \* content of the mpsc channel
    enqLog,        \* history: events in the order they entered the channel
    enqDown,       \* history: sequence numbers of the events that entered
                   \* the channel while the sink was unreachable
    refused,       \* history: sequence numbers of the events whose
                   \* tx.send found the channel full
    serBudget,     \* number of payloads still to come that fail to serialize
    fpc,           \* position of the forwarder task
    pending,       \* forwarder local `pending`
    fev,           \* forwarder local `event` / `next`
    stream,        \* forwarder local `stream`: "none", "open", or "broken"
                   \* (Some, but the peer is gone: the next send fails)
    wire,          \* history: events whose ws.send returned Ok, in order
    retry_delay,   \* forwarder local `retry_delay`, in seconds
    sinkUp,        \* the sink accepts connects and sends
    outages        \* number of times the sink went down

sessVars == <<active_turn, hostEvents, runnerAborts, replacedBy>>
workerVars == <<wpc, abortReq, wlast, wev>>
callerVars == <<cpc, csub, creason, ctasks, ccur, cev, nextSub>>
emitVars == <<sequence, queue, enqLog, enqDown, refused, serBudget>>
fwdVars == <<fpc, pending, fev, stream, wire, retry_delay>>
envVars == <<sinkUp, outages>>
cfgVars == <<url, connect_url, sender>>
vars == <<sessVars, workerVars, callerVars, cfgVars, emitVars, fwdVars, envVars>>

(* ---- data ------------------------------------------------------------ *)
NoTurn == [present |-> FALSE, tasks |-> {}]
NoEvent == [seq |-> -1, action_type |-> "none", subId |-> NoSub, ser |-> TRUE]

(* struct VisualizerEvent: sequence, action_type and the subId of the     *)
(* action payload; `ser` tells whether serde_json::to_string accepts it.  *)
VisualizerEvent(seqno, type, sub, ok) ==
    [seq |-> seqno, action_type |-> type, subId |-> sub, ser |-> ok]

TaskComplete(sub, last) == [type |-> "TaskComplete", id |-> sub, arg |-> last]
TurnAborted(sub, reason) == [type |-> "TurnAborted", id |-> sub, arg |-> reason]

(* AbortHandle::is_finished: the worker future has completed, was          *)
(* cancelled, or panicked.                                                *)
is_finished(s) == wpc[s] \in {"done", "cancelled", "panicked"}

(* ActiveTurn::remove_task: removes the entry, returns "map now empty".   *)
remove_task(turn, s) == [present |-> TRUE, tasks |-> turn.tasks \ {s}]

(* ActiveTurn::default() followed by add_task.                            *)
add_task(turn, s) == [present |-> TRUE, tasks |-> turn.tasks \cup {s}]

(* ---- the URL given to AgentVisualizer::new ----------------------------- *)
(* A URL is its kind and the key=value pairs of its query, as written:    *)
(*   "none"         Option::None (CODEX_VISUALIZER_WS is not set)         *)
(*   "empty"        Some("")                                              *)
(*   "blank"        Some of a string of whitespace only                   *)
(*   "unparseable"  Some of another string that Url::parse rejects        *)
(*   "ok"           Some of a string that Url::parse accepts              *)
RawKeys == {"role", "%72ole", "k"}
RawValues == {"consumer", "producer", "a%20b"}
RawPairs == [key : RawKeys, value : RawValues]

RECURSIVE SeqsUpTo(_, _)
SeqsUpTo(S, n) ==
    IF n = 0 THEN {<<>>}
    ELSE LET shorter == SeqsUpTo(S, n - 1)
         IN  shorter \cup {Append(q, x) : q \in shorter, x \in S}

NoUrl == [kind |-> "none", query |-> <<>>]
PlainUrl == [kind |-> "ok", query |-> <<>>]
Unbuilt == [kind |-> "unbuilt", query |-> <<>>]
UrlInputs ==
    {NoUrl}
      \cup {[kind |-> k, query |-> <<>>] : k \in {"empty", "blank", "unparseable"}}
      \cup {[kind |-> "ok", query |-> q] : q \in SeqsUpTo(RawPairs, MaxQueryLen)}

(* form_urlencoded::parse, as used by Url::query_pairs: percent-decoding, *)
(* with `+` for a space                                                   *)
percent_decode(t) ==
    CASE t = "%72ole" -> "role"
      [] t = "a%20b" -> "a b"
      [] t = "a+b" -> "a b"
      [] OTHER -> t

(* form_urlencoded::byte_serialize, as used by Serializer::append_pair    *)
byte_serialize(t) == IF t = "a b" THEN "a+b" ELSE t

query_pairs(q) ==
    [i \in 1..Len(q) |->
        [key |-> percent_decode(q[i].key), value |-> percent_decode(q[i].value)]]

KeyIsNotRole(pair) == pair.key # "role"

append_pair(out, key, value) ==
    Append(out, [key |-> byte_serialize(key), value |-> byte_serialize(value)])

RECURSIVE append_pairs(_, _)
append_pairs(out, pairs) ==
    IF pairs = <<>> THEN out
    ELSE append_pairs(append_pair(out, Head(pairs).key, Head(pairs).value),
                      Tail(pairs))

(* a variant that appends role=producer to the query as it is             *)
ensure_producer_role_appends(u) ==
    [kind |-> "ok",
     query |-> append_pair(append_pairs(<<>>, query_pairs(u.query)),
                           "role", "producer")]

(* ensure_producer_role on a string that Url::parse accepts: the decoded  *)
(* pairs whose key is not `role` are serialized again, in order, then     *)
(* role=producer; the result replaces the query                           *)
ensure_producer_role(u) ==
    [kind |-> "ok",
     query |-> append_pair(
                   append_pairs(<<>>, SelectSeq(query_pairs(u.query), KeyIsNotRole)),
                   "role", "producer")]

(* AgentVisualizer::new: `if let Some(url) = url` decides whether there   *)
(* is a sender; connect_url is the prepared URL, or the URL as given when *)
(* Url::parse rejects it                                                  *)
new_sender(u) == u # NoUrl

new_connect_url(u) ==
    IF u = NoUrl THEN NoUrl
    ELSE IF u.kind = "ok" THEN ensure_producer_role(u)
    ELSE u

(* the session, the channel and the forwarder as they are created         *)
InitState ==
    /\ active_turn = NoTurn
    /\ hostEvents = [s \in SubIds |-> <<>>]
    /\ runnerAborts = [s \in SubIds |-> 0]
    /\ replacedBy = [s \in SubIds |-> NoSub]
    /\ wpc = [s \in SubIds |-> "none"]
    /\ abortReq = [s \in SubIds |-> FALSE]
    /\ wlast = [s \in SubIds |-> "None"]
    /\ wev = [s \in SubIds |-> NoEvent]
    /\ cpc = [c \in Callers |-> "idle"]
    /\ csub = [c \in Callers |-> NoSub]
    /\ creason = [c \in Callers |-> "Replaced"]
    /\ ctasks = [c \in Callers |-> {}]
    /\ ccur = [c \in Callers |-> NoSub]
    /\ cev = [c \in Callers |-> NoEvent]
    /\ nextSub = 1
    /\ sequence = 0
    /\ queue = <<>>
    /\ enqLog = <<>>
    /\ enqDown = {}
    /\ refused = {}
    /\ serBudget \in {0, MaxSerFail}
    /\ fpc = "recv"
    /\ pending = NoEvent
    /\ fev = NoEvent
    /\ stream = "none"
    /\ wire = <<>>
    /\ retry_delay = 1
    /\ sinkUp \in BOOLEAN
    /\ outages = 0

(* the state after AgentVisualizer::new(url)                              *)
Init ==
    /\ InitState
    /\ url \in {NoUrl, PlainUrl}
    /\ sender = new_sender(url)
    /\ connect_url = new_connect_url(url)

(* AgentVisualizer::new(url), seen as a step from the state before it     *)
AgentVisualizer_new ==
    /\ connect_url = Unbuilt
    /\ sender' = new_sender(url)
    /\ connect_url' = new_connect_url(url)
    /\ UNCHANGED url
    /\ UNCHANGED <<sessVars, workerVars, callerVars, emitVars, fwdVars, envVars>>


(* ---- AgentVisualizer::emit ------------------------------------------- *)
(* emit, first half: `sequence.fetch_add(1)` and the construction of the  *)
(* event. The caller of emit holds the event until the channel send.      *)
(* Whether the event will serialize is a property of its payload.         *)
emit_fetch_add(type, sub, ok) == VisualizerEvent(sequence, type, sub, ok)

SerChoice(ok) ==
    /\ ok \/ serBudget > 0
    /\ serBudget' = IF ok THEN serBudget ELSE serBudget - 1

(* emit, second half: `tx.send(event).await`. Sender::send waits for a    *)
(* free slot: the step is enabled only while the channel has room.        *)
emit_send(ev) ==
    /\ Len(queue) < QueueCap
    /\ queue' = Append(queue, ev)
    /\ enqLog' = Append(enqLog, ev)
    /\ enqDown' = IF sinkUp THEN enqDown ELSE enqDown \cup {ev.seq}
    /\ UNCHANGED refused

(* the events stamped by emit whose tx.send has not completed             *)
Sending ==
    {cev[c] : c \in {d \in Callers : cpc[d] \in {"ab_enq", "sp_enq", "emit_enq"}}}
        \cup {wev[s] : s \in {t \in SubIds : wpc[t] = "otf_enq"}}

(* emit, second half, polled while the channel is full: Sender::send      *)
(* returns Pending and the emitting task stays parked in `.await`; the     *)
(* event is kept by the task, nothing is dropped                          *)
emit_send_waits ==
    /\ sender
    /\ Len(queue) >= QueueCap
    /\ \E e \in Sending :
          /\ e.seq \notin refused
          /\ refused' = refused \cup {e.seq}
    /\ UNCHANGED <<sequence, queue, enqLog, enqDown, serBudget>>
    /\ UNCHANGED <<sessVars, workerVars, callerVars, cfgVars, fwdVars, envVars>>

(* A direct call of AgentVisualizer::emit (through SessionVisualizer::emit)*)
(* by some task of the session: first half                                *)
emit_call(c) ==
    /\ sender
    /\ cpc[c] = "idle"
    /\ sequence < MaxEmits
    /\ \E ok \in BOOLEAN :
          /\ SerChoice(ok)
          /\ cev' = [cev EXCEPT ![c] = emit_fetch_add("other", NoSub, ok)]
    /\ sequence' = sequence + 1
    /\ cpc' = [cpc EXCEPT ![c] = "emit_enq"]
    /\ UNCHANGED <<queue, enqLog, enqDown, refused>>
    /\ UNCHANGED <<csub, creason, ctasks, ccur, nextSub>>
    /\ UNCHANGED <<sessVars, workerVars, cfgVars, fwdVars, envVars>>

(* second half: the channel send, after which emit returns                *)
emit_return(c) ==
    /\ cpc[c] = "emit_enq"
    /\ emit_send(cev[c])
    /\ cev' = [cev EXCEPT ![c] = NoEvent]
    /\ cpc' = [cpc EXCEPT ![c] = "idle"]
    /\ UNCHANGED <<sequence, serBudget>>
    /\ UNCHANGED <<csub, creason, ctasks, ccur, nextSub>>
    /\ UNCHANGED <<sessVars, workerVars, cfgVars, fwdVars, envVars>>

(* ---- Session::spawn_task / abort_all_tasks (callers) ------------------ *)
(* where a caller continues once `remaining` tasks are left to abort      *)
AfterTasks(sub, remaining) ==
    IF remaining # {} THEN "abort"
    ELSE IF sub = NoSub THEN "idle" ELSE "spawn"

(* the `reason` local is dead once the call has returned                  *)
ReasonAt(pc, reason) == IF pc = "idle" THEN "Replaced" ELSE reason

(* take_all_running_tasks: under the lock, take the turn out of the slot  *)
(* and drain its tasks                                                    *)
take_all_running_tasks == IF active_turn.present THEN active_turn.tasks ELSE {}

(* a variant that reads the tasks of the turn and leaves the turn in place *)
abort_all_tasks_peeks(c, sub, reason) ==
    /\ ctasks' = [ctasks EXCEPT ![c] = take_all_running_tasks]
    /\ active_turn' = active_turn
    /\ csub' = [csub EXCEPT ![c] = sub]
    /\ cpc' = [cpc EXCEPT ![c] = AfterTasks(sub, ctasks'[c])]
    /\ creason' = [creason EXCEPT ![c] = ReasonAt(cpc'[c], reason)]

(* abort_all_tasks(reason), as called by the host (sub = NoSub) or as the *)
(* first statement of spawn_task(sub): the tasks of the turn are taken    *)
abort_all_tasks_begin(c, sub, reason) ==
    /\ ctasks' = [ctasks EXCEPT ![c] = take_all_running_tasks]
    /\ active_turn' = NoTurn
    /\ csub' = [csub EXCEPT ![c] = sub]
    /\ cpc' = [cpc EXCEPT ![c] = AfterTasks(sub, ctasks'[c])]
    /\ creason' = [creason EXCEPT ![c] = ReasonAt(cpc'[c], reason)]

(* the host calls spawn_task with a fresh sub_id (at most `limit` calls);  *)
(* its first statement is abort_all_tasks(TurnAbortReason::Replaced)      *)
spawn_task(c, limit) ==
    /\ cpc[c] = "idle"
    /\ nextSub <= limit
    /\ nextSub' = nextSub + 1
    /\ abort_all_tasks_begin(c, nextSub, "Replaced")
    /\ replacedBy' = [s \in SubIds |->
                         IF s \in take_all_running_tasks /\ ~is_finished(s)
                         THEN nextSub ELSE replacedBy[s]]
    /\ UNCHANGED <<hostEvents, runnerAborts>>
    /\ UNCHANGED <<ccur, cev>>
    /\ UNCHANGED <<workerVars, cfgVars, emitVars, fwdVars, envVars>>

(* the host calls abort_all_tasks(reason) directly                        *)
abort_all_tasks(c, reason) ==
    /\ cpc[c] = "idle"
    /\ abort_all_tasks_begin(c, NoSub, reason)
    /\ UNCHANGED <<hostEvents, runnerAborts, replacedBy>>
    /\ UNCHANGED <<ccur, cev, nextSub>>
    /\ UNCHANGED <<workerVars, cfgVars, emitVars, fwdVars, envVars>>

(* the loop of abort_all_tasks goes on to the next task                   *)
abort_next(c) ==
    /\ ctasks' = [ctasks EXCEPT ![c] = @ \ {ccur[c]}]
    /\ ccur' = [ccur EXCEPT ![c] = NoSub]
    /\ cpc' = [cpc EXCEPT ![c] = AfterTasks(csub[c], ctasks'[c])]
    /\ creason' = [creason EXCEPT ![c] = ReasonAt(cpc'[c], @)]

(* a variant that aborts the handle without looking at is_finished        *)
handle_task_abort_always(c, s) ==
    /\ cpc[c] = "abort"
    /\ s \in ctasks[c]
    /\ abortReq' = [abortReq EXCEPT ![s] = TRUE]
    /\ runnerAborts' = [runnerAborts EXCEPT ![s] = @ + 1]
    /\ ccur' = [ccur EXCEPT ![c] = s]
    /\ cpc' = [cpc EXCEPT ![c] = "ab_send"]
    /\ UNCHANGED <<ctasks, creason>>
    /\ UNCHANGED <<active_turn, hostEvents, replacedBy, wpc, wlast, wev>>
    /\ UNCHANGED <<csub, cev, nextSub>>
    /\ UNCHANGED <<cfgVars, emitVars, fwdVars, envVars>>

(* handle_task_abort, up to and including `session_task.abort(..)`:       *)
(* a finished handle is skipped; otherwise the handle is aborted and the  *)
(* runner's abort hook is called.                                         *)
handle_task_abort(c, s) ==
    /\ cpc[c] = "abort"
    /\ s \in ctasks[c]
    /\ IF is_finished(s)
       THEN /\ ctasks' = [ctasks EXCEPT ![c] = @ \ {s}]
            /\ cpc' = [cpc EXCEPT ![c] = AfterTasks(csub[c], ctasks'[c])]
            /\ creason' = [creason EXCEPT ![c] = ReasonAt(cpc'[c], @)]
            /\ UNCHANGED <<abortReq, runnerAborts, ccur>>
       ELSE /\ abortReq' = [abortReq EXCEPT ![s] = TRUE]
            /\ runnerAborts' = [runnerAborts EXCEPT ![s] = @ + 1]
            /\ ccur' = [ccur EXCEPT ![c] = s]
            /\ cpc' = [cpc EXCEPT ![c] = "ab_send"]
            /\ UNCHANGED <<ctasks, creason>>
    /\ UNCHANGED <<active_turn, hostEvents, replacedBy, wpc, wlast, wev>>
    /\ UNCHANGED <<csub, cev, nextSub>>
    /\ UNCHANGED <<cfgVars, emitVars, fwdVars, envVars>>

(* a variant that cancels the worker without telling the host             *)
abort_without_event(c) ==
    /\ cpc[c] = "ab_send"
    /\ IF sender
       THEN /\ cpc' = [cpc EXCEPT ![c] = "ab_emit"]
            /\ UNCHANGED <<ctasks, ccur, creason>>
       ELSE abort_next(c)
    /\ UNCHANGED <<active_turn, hostEvents, runnerAborts, replacedBy>>
    /\ UNCHANGED <<csub, cev, nextSub>>
    /\ UNCHANGED <<workerVars, cfgVars, emitVars, fwdVars, envVars>>

(* handle_task_abort: send_event(TurnAborted { reason }); emit returns at *)
(* once when there is no sender                                           *)
abort_send_event(c) ==
    /\ cpc[c] = "ab_send"
    /\ hostEvents' = [hostEvents EXCEPT ![ccur[c]] =
                         Append(@, TurnAborted(ccur[c], creason[c]))]
    /\ IF sender
       THEN /\ cpc' = [cpc EXCEPT ![c] = "ab_emit"]
            /\ UNCHANGED <<ctasks, ccur, creason>>
       ELSE abort_next(c)
    /\ UNCHANGED <<active_turn, runnerAborts, replacedBy>>
    /\ UNCHANGED <<csub, cev, nextSub>>
    /\ UNCHANGED <<workerVars, cfgVars, emitVars, fwdVars, envVars>>

(* handle_task_abort: emit_with_state("task_aborted"), first half of emit *)
abort_emit(c) ==
    /\ cpc[c] = "ab_emit"
    /\ \E ok \in BOOLEAN :
          /\ SerChoice(ok)
          /\ cev' = [cev EXCEPT ![c] =
                        emit_fetch_add("task_aborted", ccur[c], ok)]
    /\ sequence' = sequence + 1
    /\ cpc' = [cpc EXCEPT ![c] = "ab_enq"]
    /\ UNCHANGED <<queue, enqLog, enqDown, refused>>
    /\ UNCHANGED <<csub, creason, ctasks, ccur, nextSub>>
    /\ UNCHANGED <<sessVars, workerVars, cfgVars, fwdVars, envVars>>

(* handle_task_abort: second half of emit, then the next task of the loop *)
abort_enqueue(c) ==
    /\ cpc[c] = "ab_enq"
    /\ emit_send(cev[c])
    /\ cev' = [cev EXCEPT ![c] = NoEvent]
    /\ abort_next(c)
    /\ UNCHANGED <<sequence, serBudget>>
    /\ UNCHANGED <<csub, nextSub>>
    /\ UNCHANGED <<sessVars, workerVars, cfgVars, fwdVars, envVars>>

(* spawn_task: tokio::spawn of the worker; from here on the worker runs   *)
(* concurrently with the rest of spawn_task                               *)
tokio_spawn(c) ==
    /\ cpc[c] = "spawn"
    /\ wpc' = [wpc EXCEPT ![csub[c]] = "run"]
    /\ cpc' = [cpc EXCEPT ![c] = "register"]
    /\ UNCHANGED <<abortReq, wlast, wev>>
    /\ UNCHANGED <<csub, creason, ctasks, ccur, cev, nextSub>>
    /\ UNCHANGED <<sessVars, cfgVars, emitVars, fwdVars, envVars>>

(* a variant that adds the task to the turn found in the slot             *)
register_keeps_turn(c) ==
    /\ cpc[c] = "register"
    /\ active_turn' = add_task(active_turn, csub[c])
    /\ cpc' = [cpc EXCEPT ![c] = IF sender THEN "sp_emit" ELSE "idle"]
    /\ csub' = [csub EXCEPT ![c] = IF sender THEN @ ELSE NoSub]
    /\ UNCHANGED <<hostEvents, runnerAborts, replacedBy>>
    /\ UNCHANGED <<creason, ctasks, ccur, cev, nextSub>>
    /\ UNCHANGED <<workerVars, cfgVars, emitVars, fwdVars, envVars>>

(* register_new_active_task: under the lock, a fresh turn holding the     *)
(* new task replaces whatever the slot holds; with no sender the emit     *)
(* that follows returns at once and so does spawn_task                    *)
register_new_active_task(c) ==
    /\ cpc[c] = "register"
    /\ active_turn' = add_task(NoTurn, csub[c])
    /\ cpc' = [cpc EXCEPT ![c] = IF sender THEN "sp_emit" ELSE "idle"]
    /\ csub' = [csub EXCEPT ![c] = IF sender THEN @ ELSE NoSub]
    /\ UNCHANGED <<hostEvents, runnerAborts, replacedBy>>
    /\ UNCHANGED <<creason, ctasks, ccur, cev, nextSub>>
    /\ UNCHANGED <<workerVars, cfgVars, emitVars, fwdVars, envVars>>

(* spawn_task: emit_with_state("task_spawned"), first half of emit        *)
spawn_emit(c) ==
    /\ cpc[c] = "sp_emit"
    /\ \E ok \in BOOLEAN :
          /\ SerChoice(ok)
          /\ cev' = [cev EXCEPT ![c] =
                        emit_fetch_add("task_spawned", csub[c], ok)]
    /\ sequence' = sequence + 1
    /\ cpc' = [cpc EXCEPT ![c] = "sp_enq"]
    /\ UNCHANGED <<queue, enqLog, enqDown, refused>>
    /\ UNCHANGED <<csub, creason, ctasks, ccur, nextSub>>
    /\ UNCHANGED <<sessVars, workerVars, cfgVars, fwdVars, envVars>>

(* spawn_task: second half of emit; spawn_task returns                    *)
spawn_enqueue(c) ==
    /\ cpc[c] = "sp_enq"
    /\ emit_send(cev[c])
    /\ cev' = [cev EXCEPT ![c] = NoEvent]
    /\ cpc' = [cpc EXCEPT ![c] = "idle"]
    /\ csub' = [csub EXCEPT ![c] = NoSub]
    /\ UNCHANGED <<sequence, serBudget>>
    /\ UNCHANGED <<creason, ctasks, ccur, nextSub>>
    /\ UNCHANGED <<sessVars, workerVars, cfgVars, fwdVars, envVars>>

(* ---- the worker spawned by spawn_task --------------------------------- *)
(* task_for_run.run(..).await returns the last agent message              *)
run_returns(s, last) ==
    /\ wpc[s] = "run"
    /\ wlast' = [wlast EXCEPT ![s] = last]
    /\ wpc' = [wpc EXCEPT ![s] = "otf_lock"]
    /\ UNCHANGED <<abortReq, wev>>
    /\ UNCHANGED <<sessVars, callerVars, cfgVars, emitVars, fwdVars, envVars>>

(* runner.run panics: the spawned future unwinds, the tokio task ends and *)
(* nothing that follows `.await` in the async block is executed           *)
run_panics(s) ==
    /\ wpc[s] = "run"
    /\ wpc' = [wpc EXCEPT ![s] = "panicked"]
    /\ UNCHANGED <<abortReq, wlast, wev>>
    /\ UNCHANGED <<sessVars, callerVars, cfgVars, emitVars, fwdVars, envVars>>

(* a variant that clears the slot whatever the turn holds                 *)
on_task_finished_clears(s) ==
    /\ wpc[s] = "otf_lock"
    /\ active_turn' = NoTurn
    /\ wpc' = [wpc EXCEPT ![s] = "otf_send"]
    /\ UNCHANGED <<hostEvents, runnerAborts, replacedBy>>
    /\ UNCHANGED <<abortReq, wlast, wev>>
    /\ UNCHANGED <<callerVars, cfgVars, emitVars, fwdVars, envVars>>

(* on_task_finished, the locked section: remove sub_id from the turn and  *)
(* clear the slot when the turn's map is empty afterwards                 *)
on_task_finished(s) ==
    /\ wpc[s] = "otf_lock"
    /\ active_turn' =
          IF active_turn.present
          THEN IF remove_task(active_turn, s).tasks = {}
               THEN NoTurn
               ELSE remove_task(active_turn, s)
          ELSE active_turn
    /\ wpc' = [wpc EXCEPT ![s] = "otf_send"]
    /\ UNCHANGED <<hostEvents, runnerAborts, replacedBy>>
    /\ UNCHANGED <<abortReq, wlast, wev>>
    /\ UNCHANGED <<callerVars, cfgVars, emitVars, fwdVars, envVars>>

(* on_task_finished: send_event(TaskComplete { last_agent_message });     *)
(* with no sender emit returns at once and the worker future completes    *)
finished_send_event(s) ==
    /\ wpc[s] = "otf_send"
    /\ hostEvents' = [hostEvents EXCEPT ![s] =
                         Append(@, TaskComplete(s, wlast[s]))]
    /\ wpc' = [wpc EXCEPT ![s] = IF sender THEN "otf_emit" ELSE "done"]
    /\ UNCHANGED <<active_turn, runnerAborts, replacedBy>>
    /\ UNCHANGED <<abortReq, wlast, wev>>
    /\ UNCHANGED <<callerVars, cfgVars, emitVars, fwdVars, envVars>>

(* on_task_finished: emit_with_state("task_completed"), first half of emit*)
finished_emit(s) ==
    /\ wpc[s] = "otf_emit"
    /\ \E ok \in BOOLEAN :
          /\ SerChoice(ok)
          /\ wev' = [wev EXCEPT ![s] =
                        emit_fetch_add("task_completed", s, ok)]
    /\ sequence' = sequence + 1
    /\ wpc' = [wpc EXCEPT ![s] = "otf_enq"]
    /\ UNCHANGED <<queue, enqLog, enqDown, refused>>
    /\ UNCHANGED <<abortReq, wlast>>
    /\ UNCHANGED <<sessVars, callerVars, cfgVars, fwdVars, envVars>>

(* on_task_finished: second half of emit; the worker future completes     *)
finished_enqueue(s) ==
    /\ wpc[s] = "otf_enq"
    /\ emit_send(wev[s])
    /\ wev' = [wev EXCEPT ![s] = NoEvent]
    /\ wpc' = [wpc EXCEPT ![s] = "done"]
    /\ UNCHANGED <<sequence, serBudget>>
    /\ UNCHANGED <<abortReq, wlast>>
    /\ UNCHANGED <<sessVars, callerVars, cfgVars, fwdVars, envVars>>

(* AbortHandle::abort takes effect when the worker next yields: until     *)
(* then the worker may go on, at a yield it is dropped where it stands    *)
worker_cancelled(s) ==
    /\ abortReq[s]
    /\ wpc[s] \in {"run", "otf_lock", "otf_send", "otf_emit", "otf_enq"}
    /\ wpc' = [wpc EXCEPT ![s] = "cancelled"]
    /\ UNCHANGED <<abortReq, wlast, wev>>
    /\ UNCHANGED <<sessVars, callerVars, cfgVars, emitVars, fwdVars, envVars>>


(* ---- the forwarder task started by AgentVisualizer::new --------------- *)
(* `retry_delay` is bound once, before the loop, to                       *)
(* Duration::from_secs(1); the binding is immutable, so no step of the    *)
(* forwarder assigns it.                                                  *)
(* top of 'outer: take the pending head, or wait on rx.recv() for one     *)
fwd_recv ==
    /\ sender
    /\ fpc = "recv"
    /\ IF pending = NoEvent
       THEN /\ queue # <<>>
            /\ fev' = Head(queue)
            /\ queue' = Tail(queue)
            /\ UNCHANGED pending
       ELSE /\ fev' = pending
            /\ pending' = NoEvent
            /\ UNCHANGED queue
    /\ fpc' = IF stream = "none" THEN "connect" ELSE "send"
    /\ UNCHANGED <<stream, wire>>
    /\ UNCHANGED <<sequence, enqLog, enqDown, refused, serBudget>>
    /\ UNCHANGED retry_delay
    /\ UNCHANGED <<sessVars, workerVars, callerVars, cfgVars, envVars>>

(* a variant that forgets the event when the connect fails                *)
fwd_connect_drops ==
    /\ sender
    /\ fpc = "connect"
    /\ IF sinkUp
       THEN /\ stream' = "open"
            /\ fpc' = "send"
            /\ UNCHANGED <<pending, fev>>
       ELSE /\ fev' = NoEvent
            /\ fpc' = "sleep"
            /\ UNCHANGED <<pending, stream>>
    /\ UNCHANGED wire
    /\ UNCHANGED retry_delay
    /\ UNCHANGED <<sessVars, workerVars, callerVars, cfgVars, emitVars, envVars>>

(* connect_async: on failure the event goes back to `pending`             *)
fwd_connect ==
    /\ sender
    /\ fpc = "connect"
    /\ IF sinkUp
       THEN /\ stream' = "open"
            /\ fpc' = "send"
            /\ UNCHANGED <<pending, fev>>
       ELSE /\ pending' = fev
            /\ fev' = NoEvent
            /\ fpc' = "sleep"
            /\ UNCHANGED stream
    /\ UNCHANGED wire
    /\ UNCHANGED retry_delay
    /\ UNCHANGED <<sessVars, workerVars, callerVars, cfgVars, emitVars, envVars>>

(* a variant that keeps the event for another send after a successful one *)
fwd_send_keeps ==
    /\ sender
    /\ fpc = "send"
    /\ IF ~fev.ser
       THEN /\ fpc' = "recv"
            /\ UNCHANGED <<pending, stream, wire>>
       ELSE IF stream = "open"
       THEN /\ wire' = Append(wire, fev)
            /\ pending' = fev
            /\ fpc' = "backlog"
            /\ UNCHANGED <<stream>>
       ELSE /\ pending' = fev
            /\ stream' = "none"
            /\ fpc' = "sleep"
            /\ UNCHANGED wire
    /\ fev' = NoEvent
    /\ UNCHANGED retry_delay
    /\ UNCHANGED <<sessVars, workerVars, callerVars, cfgVars, emitVars, envVars>>

(* a variant that treats a failed serialization like a failed send        *)
fwd_send_requeues ==
    /\ sender
    /\ fpc = "send"
    /\ IF ~fev.ser
       THEN /\ pending' = fev
            /\ fpc' = "sleep"
            /\ UNCHANGED <<stream, wire>>
       ELSE IF stream = "open"
       THEN /\ wire' = Append(wire, fev)
            /\ fpc' = "backlog"
            /\ UNCHANGED <<pending, stream>>
       ELSE /\ pending' = fev
            /\ stream' = "none"
            /\ fpc' = "sleep"
            /\ UNCHANGED wire
    /\ fev' = NoEvent
    /\ UNCHANGED retry_delay
    /\ UNCHANGED <<sessVars, workerVars, callerVars, cfgVars, emitVars, envVars>>

(* serialize and send the head event                                      *)
fwd_send ==
    /\ sender
    /\ fpc = "send"
    /\ IF ~fev.ser
       THEN /\ fpc' = "recv"
            /\ UNCHANGED <<pending, stream, wire>>
       ELSE IF stream = "open"
       THEN /\ wire' = Append(wire, fev)
            /\ fpc' = "backlog"
            /\ UNCHANGED <<pending, stream>>
       ELSE /\ pending' = fev
            /\ stream' = "none"
            /\ fpc' = "sleep"
            /\ UNCHANGED wire
    /\ fev' = NoEvent
    /\ UNCHANGED retry_delay
    /\ UNCHANGED <<sessVars, workerVars, callerVars, cfgVars, emitVars, envVars>>

(* the backlog loop: rx.try_recv(), serialize, send                       *)
fwd_backlog ==
    /\ sender
    /\ fpc = "backlog"
    /\ IF queue = <<>>
       THEN /\ fpc' = "recv"
            /\ UNCHANGED <<queue, pending, stream, wire>>
       ELSE /\ queue' = Tail(queue)
            /\ IF ~Head(queue).ser
               THEN UNCHANGED <<fpc, pending, stream, wire>>
               ELSE IF stream = "open"
               THEN /\ wire' = Append(wire, Head(queue))
                    /\ UNCHANGED <<fpc, pending, stream>>
               ELSE /\ pending' = Head(queue)
                    /\ stream' = "none"
                    /\ fpc' = "sleep"
                    /\ UNCHANGED wire
    /\ UNCHANGED fev
    /\ UNCHANGED <<sequence, enqLog, enqDown, refused, serBudget>>
    /\ UNCHANGED retry_delay
    /\ UNCHANGED <<sessVars, workerVars, callerVars, cfgVars, envVars>>

(* tokio::time::sleep(retry_delay) after a failed connect or send         *)
fwd_sleep ==
    /\ sender
    /\ fpc = "sleep"
    /\ fpc' = "recv"
    /\ UNCHANGED <<pending, fev, stream, wire>>
    /\ UNCHANGED retry_delay
    /\ UNCHANGED <<sessVars, workerVars, callerVars, cfgVars, emitVars, envVars>>

(* ---- the sink --------------------------------------------------------- *)
(* the sink becomes unreachable; an open connection is broken by it       *)
SinkGoesDown ==
    /\ sender
    /\ sinkUp
    /\ outages < MaxOutages
    /\ sinkUp' = FALSE
    /\ outages' = outages + 1
    /\ stream' = IF stream = "open" THEN "broken" ELSE stream
    /\ UNCHANGED <<fpc, pending, fev, wire>>
    /\ UNCHANGED retry_delay
    /\ UNCHANGED <<sessVars, workerVars, callerVars, cfgVars, emitVars>>

SinkComesUp ==
    /\ sender
    /\ ~sinkUp
    /\ sinkUp' = TRUE
    /\ UNCHANGED outages
    /\ UNCHANGED <<sessVars, workerVars, callerVars, cfgVars, emitVars, fwdVars>>

(* ---- specification ---------------------------------------------------- *)
CallerStep(c) ==
    \/ \E s \in SubIds : handle_task_abort(c, s)
    \/ abort_send_event(c)
    \/ abort_emit(c)
    \/ abort_enqueue(c)
    \/ tokio_spawn(c)
    \/ register_new_active_task(c)
    \/ spawn_emit(c)
    \/ spawn_enqueue(c)

WorkerStep(s) ==
    \/ on_task_finished(s)
    \/ finished_send_event(s)
    \/ finished_emit(s)
    \/ finished_enqueue(s)
    \/ worker_cancelled(s)

FwdStep ==
    \/ fwd_recv
    \/ fwd_connect
    \/ fwd_send
    \/ fwd_backlog
    \/ fwd_sleep

Next ==
    \/ \E c \in Callers : spawn_task(c, MaxSubs)
    \/ \E c \in Callers, r \in AbortReasons : abort_all_tasks(c, r)
    \/ \E c \in Callers : CallerStep(c)
    \/ \E s \in SubIds, last \in LastMessages : run_returns(s, last)
    \/ \E s \in SubIds : run_panics(s)
    \/ \E s \in SubIds : WorkerStep(s)
    \/ \E c \in Callers : emit_call(c)
    \/ \E c \in Callers : emit_return(c)
    \/ emit_send_waits
    \/ FwdStep
    \/ SinkGoesDown
    \/ SinkComesUp

Spec == Init /\ [][Next]_vars

(* The session without a visualizer (AgentVisualizer::new(None)): emit    *)
(* does nothing, there is no channel and no forwarder task.               *)
InitTasks == Init /\ ~sender /\ ~sinkUp /\ serBudget = 0

NextTasks ==
    \/ \E c \in Callers : spawn_task(c, MaxSubs)
    \/ \E c \in Callers, r \in AbortReasons : abort_all_tasks(c, r)
    \/ \E c \in Callers, s \in SubIds : handle_task_abort(c, s)
    \/ \E c \in Callers : abort_send_event(c)
    \/ \E c \in Callers : tokio_spawn(c)
    \/ \E c \in Callers : register_new_active_task(c)
    \/ \E s \in SubIds, last \in LastMessages : run_returns(s, last)
    \/ \E s \in SubIds : run_panics(s)
    \/ \E s \in SubIds : on_task_finished(s)
    \/ \E s \in SubIds : finished_send_event(s)
    \/ \E s \in SubIds : worker_cancelled(s)

SpecTasks == InitTasks /\ [][NextTasks]_vars

(* The session with a visualizer (AgentVisualizer::new(Some(url))) whose  *)
(* sink is either reachable or unreachable throughout, and payloads that  *)
(* all serialize. The history `refused` is not recorded here: a parked    *)
(* send shows as an emitting task that stays at its channel send.         *)
InitViz == Init /\ sender /\ serBudget = 0

NextViz ==
    \/ \E c \in VizCallers : spawn_task(c, MaxVizSubs)
    \/ \E c \in VizCallers, r \in AbortReasons : abort_all_tasks(c, r)
    \/ \E c \in VizCallers : CallerStep(c)
    \/ \E s \in SubIds, last \in LastMessages : run_returns(s, last)
    \/ \E s \in SubIds : run_panics(s)
    \/ \E s \in SubIds : WorkerStep(s)
    \/ FwdStep

SpecViz == InitViz /\ [][NextViz]_vars

(* The forwarder on its own: tasks of the session call emit directly, the *)
(* sink comes and goes, payloads may fail to serialize.                   *)
InitFwd == Init /\ sender /\ serBudget = MaxSerFail

NextFwd ==
    \/ \E c \in Callers : emit_call(c)
    \/ \E c \in Callers : emit_return(c)
    \/ emit_send_waits
    \/ FwdStep
    \/ SinkGoesDown
    \/ SinkComesUp

SpecFwd == InitFwd /\ [][NextFwd]_vars

(* The construction of the visualizer from any URL, followed by direct    *)
(* calls of emit.                                                         *)
InitUrl ==
    /\ InitState
    /\ url \in UrlInputs
    /\ sender = FALSE
    /\ connect_url = Unbuilt
    /\ ~sinkUp
    /\ serBudget = 0

NextUrl ==
    \/ AgentVisualizer_new
    \/ \E c \in Callers : emit_call(c)
    \/ \E c \in Callers : emit_return(c)
    \/ emit_send_waits

SpecUrl == InitUrl /\ [][NextUrl]_vars

(* The session in either configuration: without a visualizer, or with one *)
(* whose sink is reachable or unreachable throughout.                     *)
InitSession == InitTasks \/ InitViz

NextSession ==
    \/ ~sender /\ NextTasks
    \/ sender /\ NextViz

SpecSession == InitSession /\ [][NextSession]_vars


(* ---- observations ------------------------------------------------------ *)
RECURSIVE CountType(_, _)
CountType(log, type) ==
    IF log = <<>> THEN 0
    ELSE (IF Head(log).type = type THEN 1 ELSE 0) + CountType(Tail(log), type)

(* spawn_task(s) has been called and has returned                         *)
SpawnReturned(s) == s < nextSub /\ \A c \in Callers : csub[c] # s

(* events handed to the visualizer: stamped by emit and either in the     *)
(* channel's history or still held by the emitting task                   *)
Held == {cev[c] : c \in Callers} \cup {wev[s] : s \in SubIds}
Handed == ({enqLog[i] : i \in 1..Len(enqLog)} \cup Held) \ {NoEvent}
HandedOf(type, s) == {e \in Handed : e.action_type = type /\ e.subId = s}

(* ---- C1 ----------------------------------------------------------------
   C1: for every sub_id, the host receives at most one terminal event
   (TaskComplete or TurnAborted, never both, never one of them twice) and
   the visualizer is never handed both task_completed and task_aborted.  *)
C1_OneTerminalEvent ==
    \A s \in SubIds :
        /\ CountType(hostEvents[s], "TaskComplete")
              + CountType(hostEvents[s], "TurnAborted") <= 1
        /\ HandedOf("task_completed", s) = {} \/ HandedOf("task_aborted", s) = {}

(* ---- C3 ----------------------------------------------------------------
   C3: in every reachable state the session holds at most one ActiveTurn
   (the slot is empty or holds one turn) and that turn holds at most one
   task, whatever the interleaving of spawn_task calls.                  *)
C3_AtMostOneTask ==
    /\ Cardinality(active_turn.tasks) <= 1
    /\ ~active_turn.present => active_turn.tasks = {}

(* two spawn_task calls overlap: one has installed its turn, the other is
   about to install its own over it                                       *)
C3_Witness ==
    \E c \in Callers :
        /\ cpc[c] = "register"
        /\ active_turn.present
        /\ active_turn.tasks # {}
        /\ csub[c] \notin active_turn.tasks

(* ---- C5 ----------------------------------------------------------------
   C5: once the worker of sub_id has finished on_task_finished and
   spawn_task(sub_id) has returned, the active turn does not hold sub_id. *)
C5_NoStaleTask ==
    \A s \in SubIds :
        (wpc[s] = "done" /\ SpawnReturned(s))
            => ~(active_turn.present /\ s \in active_turn.tasks)

(* ---- C6 ----------------------------------------------------------------
   C6: when spawn_task(B) is called while A is installed and A's worker has
   not finished, then A never sends TaskComplete, and by the time B's
   worker is started (before B's turn is installed and before task_spawned
   for B) runner.abort was called once for A, A's worker was cancelled and
   exactly one TurnAborted{Replaced} and one task_aborted were emitted for
   A.                                                                     *)
C6_ReplacedIsAborted ==
    \A a \in SubIds :
        replacedBy[a] # NoSub =>
            /\ CountType(hostEvents[a], "TaskComplete") = 0
            /\ wpc[replacedBy[a]] # "none" =>
                  /\ hostEvents[a] = <<TurnAborted(a, "Replaced")>>
                  /\ runnerAborts[a] = 1
                  /\ abortReq[a]
                  /\ sender => Cardinality(HandedOf("task_aborted", a)) = 1

(* ---- C7 ----------------------------------------------------------------
   C7: once the worker of a runner that panicked has ended, on_task_finished
   (sub_id, None) has run: the host got exactly one TaskComplete with a
   null last message (and the visualizer one task_completed), and the
   active turn does not hold sub_id.                                      *)
C7_PanicStillCompletes ==
    \A s \in SubIds :
        wpc[s] = "panicked" =>
            /\ hostEvents[s] = <<TaskComplete(s, "None")>>
            /\ sender => Cardinality(HandedOf("task_completed", s)) = 1
            /\ ~(active_turn.present /\ s \in active_turn.tasks)


(* ---- C2 ----------------------------------------------------------------
   Scheduling: the runtime keeps polling every task that can make progress
   (callers inside spawn_task / abort_all_tasks, workers past runner.run,
   the forwarder). Whether and when runner.run returns, whether the host
   calls again and whether the sink is reachable is up to the environment. *)
FairViz ==
    /\ SpecViz
    /\ \A c \in VizCallers : WF_vars(CallerStep(c))
    /\ \A s \in SubIds : WF_vars(WorkerStep(s))
    /\ WF_vars(FwdStep)

RunEnded(s) ==
    \/ wpc[s] \in {"otf_lock", "otf_send", "otf_emit", "otf_enq", "done"}
    \/ abortReq[s]

HostTerminal(s) ==
    CountType(hostEvents[s], "TaskComplete")
        + CountType(hostEvents[s], "TurnAborted") >= 1

VizTerminal(s) ==
    HandedOf("task_completed", s) \cup HandedOf("task_aborted", s) # {}

(* C2: once the run body of a spawned task has returned, or the task was
   cancelled by abort_all_tasks, the host eventually receives TaskComplete
   or TurnAborted for its sub_id and the visualizer is eventually handed
   task_completed or task_aborted for it.                                 *)
C2_EventuallyTerminal ==
    \A s \in SubIds : RunEnded(s) ~> (HostTerminal(s) /\ VizTerminal(s))


(* a task was cancelled by abort_all_tasks: its worker was dropped, the
   host got TurnAborted and the visualizer was handed task_aborted        *)
C2_Witness ==
    \E s \in SubIds :
        /\ abortReq[s]
        /\ wpc[s] = "cancelled"
        /\ CountType(hostEvents[s], "TurnAborted") = 1
        /\ HandedOf("task_aborted", s) # {}

(* ---- C4 ----------------------------------------------------------------
   C4: for every sub_id, task_spawned gets its sequence number and enters
   the channel before any task_completed or task_aborted of that sub_id is
   stamped, and the worker's on_task_finished does not run before the
   active turn of that sub_id is installed.                               *)
SpawnedBefore(e) ==
    \E i \in 1..Len(enqLog) :
        /\ enqLog[i].action_type = "task_spawned"
        /\ enqLog[i].subId = e.subId
        /\ enqLog[i].seq < e.seq
        /\ \A j \in 1..Len(enqLog) : enqLog[j] = e => i < j

C4_SpawnedFirst ==
    \A s \in SubIds :
        /\ \A e \in HandedOf("task_completed", s) \cup HandedOf("task_aborted", s) :
              SpawnedBefore(e)
        /\ wpc[s] \in {"otf_send", "otf_emit", "otf_enq", "done"} =>
              \A c \in Callers : ~(cpc[c] = "register" /\ csub[c] = s)

(* ---- C8 ----------------------------------------------------------------
   C8: no call of emit (from spawn_task, abort_all_tasks, on_task_finished
   or made directly) ever waits for room in the channel: a task that has
   stamped its event can always put it into the channel at once.          *)
C8_EmitNeverWaits ==
    /\ \A c \in Callers :
          cpc[c] \in {"ab_enq", "sp_enq", "emit_enq"} => Len(queue) < QueueCap
    /\ \A s \in SubIds :
          wpc[s] = "otf_enq" => Len(queue) < QueueCap

(* ---- C9 ----------------------------------------------------------------
   C9: the events sent to the sink carry strictly ascending sequence
   numbers, and so do the events in the order they entered the channel.   *)
RECURSIVE Ascending(_)
Ascending(log) ==
    \/ Len(log) <= 1
    \/ /\ log[1].seq < log[2].seq
       /\ Ascending(Tail(log))

C9_AscendingDelivery == Ascending(wire) /\ Ascending(enqLog)

(* ---- C10 ---------------------------------------------------------------
   Scheduling: the runtime keeps polling the forwarder task. Whether the
   sink comes back is the hypothesis of the claim, stated in the formula. *)
FairFwd == SpecFwd /\ WF_vars(FwdStep)

SeqNos == 0..(MaxEmits - 1)
IsSer(e) == e.ser
InWire(k) == \E i \in 1..Len(wire) : wire[i].seq = k
Serializes(k) == \E i \in 1..Len(enqLog) : enqLog[i].seq = k /\ enqLog[i].ser

(* the sink has been sent, in channel order, every serializable event of
   a prefix of the channel's history: nothing newer overtakes a failed
   event                                                                  *)
WireFIFO ==
    \E n \in 0..Len(enqLog) : wire = SelectSeq(SubSeq(enqLog, 1, n), IsSer)

(* C10 as stated: if the sink ends up reachable for good, every event that
   entered the channel during an outage is eventually sent, in channel
   order.                                                                 *)
C10_AllSentAfterOutage ==
    /\ []WireFIFO
    /\ <>[]sinkUp => \A k \in SeqNos : (k \in enqDown) ~> InWire(k)

(* C10 amended: if the sink ends up reachable for good, every event that
   entered the channel during an outage and whose serialization succeeds
   is eventually sent, in channel order; a failed event is retried before
   anything newer is sent.                                                *)
C10_SerializableSentAfterOutage ==
    /\ []WireFIFO
    /\ <>[]sinkUp =>
          \A k \in SeqNos : (k \in enqDown /\ Serializes(k)) ~> InWire(k)

(* an event that entered the channel during an outage was sent after a
   failed connect, behind it an event that entered later                  *)
C10_Witness ==
    /\ Len(wire) >= 2
    /\ wire[1].seq \in enqDown
    /\ sinkUp

(* ---- C11 ---------------------------------------------------------------
   C11: an emission that finds the channel full is dropped: an event whose
   tx.send found the channel holding QueueCap events never enters the
   channel and is never sent to the sink.                                 *)
C11_FullChannelDrops ==
    /\ \A i \in 1..Len(enqLog) : enqLog[i].seq \notin refused
    /\ \A i \in 1..Len(wire) : wire[i].seq \notin refused

(* ---- C12 ---------------------------------------------------------------
   C12: the reconnect delay is always between 1s and 30s; every failed
   connect or send doubles the delay used for the next failure, up to the
   cap of 30s, and a successful connect sets it back to 1s (so that the
   delay slept after the K-th consecutive failure is min(2^(K-1), 30)).   *)
Doubled(d) == IF 2 * d < 30 THEN 2 * d ELSE 30

FailureStep == fpc # "sleep" /\ fpc' = "sleep"

ConnectedStep == fpc = "connect" /\ fpc' = "send"

C12_DelayDoubles ==
    /\ [](retry_delay \in 1..30)
    /\ [][FailureStep => retry_delay' = Doubled(retry_delay)]_vars
    /\ [][ConnectedStep => retry_delay' = 1]_vars

(* ---- C13 ---------------------------------------------------------------
   C13: every event is sent successfully at most once; an event whose send
   returned Ok is no longer held by the forwarder or the channel; outside
   the channel the forwarder holds at most one event that was not yet sent
   successfully, and after a failed connect or send that event is the
   pending head, the only one waiting to be sent again.                   *)
InQueue(e) == \E i \in 1..Len(queue) : queue[i] = e

C13_AtMostOnce ==
    /\ \A i, j \in 1..Len(wire) : wire[i].seq = wire[j].seq => i = j
    /\ \A i \in 1..Len(wire) :
          wire[i] # pending /\ wire[i] # fev /\ ~InQueue(wire[i])
    /\ pending = NoEvent \/ fev = NoEvent
    /\ fpc = "sleep" => (pending # NoEvent /\ fev = NoEvent)
    /\ pending # NoEvent => fpc \in {"sleep", "recv"}

(* a send or connect failed after an earlier event was sent: the failed
   event is the pending head, newer events wait behind it in the channel   *)
C13_Witness ==
    /\ fpc = "sleep"
    /\ pending # NoEvent
    /\ Len(wire) >= 1
    /\ queue # <<>>

(* ---- C14 ---------------------------------------------------------------
   C14: abort_all_tasks leaves no active turn behind, and an
   abort_all_tasks call that finds no active turn changes nothing (it
   aborts no task and emits no event); hence no task has its runner
   aborted twice or gets TurnAborted or task_aborted twice.               *)
AbortCall == \E c \in Callers, r \in AbortReasons : abort_all_tasks(c, r)

C14_AbortIdempotent ==
    /\ [][AbortCall => ~active_turn'.present]_vars
    /\ [](~active_turn.present => ~ENABLED <<AbortCall>>_vars)
    /\ [](\A s \in SubIds :
            /\ runnerAborts[s] <= 1
            /\ CountType(hostEvents[s], "TurnAborted") <= 1
            /\ Cardinality(HandedOf("task_aborted", s)) <= 1)

(* an abort_all_tasks call has aborted a task and returned: the slot is
   empty and every caller is idle, so that a second call can be made      *)
C14_Witness ==
    /\ ~active_turn.present
    /\ \A c \in Callers : cpc[c] = "idle"
    /\ \E s \in SubIds :
          /\ runnerAborts[s] = 1
          /\ hostEvents[s] = <<TurnAborted(s, "Interrupted")>>
          /\ sender => Cardinality(HandedOf("task_aborted", s)) = 1

(* ---- C15 ---------------------------------------------------------------
   C15: when on_task_finished(sub_id) takes the lock and the slot is empty
   or holds a turn without sub_id, it leaves the slot and the turn's task
   unchanged; a worker that has completed on_task_finished has sent
   exactly one TaskComplete to the host and has handed exactly one
   task_completed to the visualizer.                                      *)
LockedSection(s) == wpc[s] = "otf_lock" /\ wpc'[s] = "otf_send"

C15_ForeignFinishKeepsTurn ==
    /\ [][\A s \in SubIds :
              (LockedSection(s) /\ s \notin active_turn.tasks)
                  => active_turn' = active_turn]_vars
    /\ [](\A s \in SubIds :
            wpc[s] = "done" =>
                /\ CountType(hostEvents[s], "TaskComplete") = 1
                /\ sender => Cardinality(HandedOf("task_completed", s)) = 1)

(* the worker of sub_id ran on_task_finished while the slot did not hold
   sub_id (the turn of sub_id was installed afterwards and is still there)
   and has sent its TaskComplete                                          *)
C15_Witness ==
    \E s \in SubIds :
        /\ wpc[s] = "done"
        /\ active_turn.present
        /\ s \in active_turn.tasks
        /\ CountType(hostEvents[s], "TaskComplete") = 1

(* ---- C16 ---------------------------------------------------------------
   C16: once AgentVisualizer::new has run, the forwarder is enabled (there
   is a sender) exactly when the URL is present and neither empty nor
   whitespace-only; while it is disabled emit assigns no sequence number
   and nothing is queued.                                                 *)
C16_BlankUrlDisables ==
    connect_url # Unbuilt =>
        /\ sender <=> url.kind \notin {"none", "empty", "blank"}
        /\ ~sender => (sequence = 0 /\ queue = <<>> /\ enqLog = <<>>)

(* ---- C17 ---------------------------------------------------------------
   C17: for every URL that Url::parse accepts, the query of the connect
   URL holds exactly one pair whose key is `role`, its value is
   `producer`, and the pairs with another key are those of the input
   query, with the same keys and values, in the same order.               *)
RolePairs(pairs) == {i \in 1..Len(pairs) : pairs[i].key = "role"}

C17_OneProducerRole ==
    (url.kind = "ok" /\ connect_url # Unbuilt) =>
        /\ connect_url.kind = "ok"
        /\ Cardinality(RolePairs(query_pairs(connect_url.query))) = 1
        /\ \A i \in RolePairs(query_pairs(connect_url.query)) :
              query_pairs(connect_url.query)[i].value = "producer"
        /\ SelectSeq(query_pairs(connect_url.query), KeyIsNotRole)
              = SelectSeq(query_pairs(url.query), KeyIsNotRole)

(* the connect URL was prepared from a query that held a role pair written
   with a percent-escape, in front of a pair with another key whose value
   holds an escaped space                                                 *)
C17_Witness ==
    /\ url.kind = "ok"
    /\ connect_url.kind = "ok"
    /\ Len(url.query) = 2
    /\ url.query[1] = [key |-> "%72ole", value |-> "consumer"]
    /\ url.query[2] = [key |-> "k", value |-> "a%20b"]
    /\ connect_url.query = <<[key |-> "k", value |-> "a+b"],
                             [key |-> "role", value |-> "producer"]>>

(* ---- C18 ---------------------------------------------------------------
   C18: when the serialization of an event fails, at the head of the loop
   or in the backlog loop, that event alone is dropped: it is not put back
   into `pending` or the channel, the connection is kept, no retry delay
   is slept, nothing is sent for it, and the forwarder goes on with the
   events behind it, which are sent in channel order.                     *)
HeadSerializeFails == fpc = "send" /\ ~fev.ser /\ fpc' # "send"

BacklogSerializeFails ==
    /\ fpc = "backlog"
    /\ queue # <<>>
    /\ ~Head(queue).ser
    /\ Len(queue') < Len(queue)

C18_SerializeFailureDropsOne ==
    /\ [][HeadSerializeFails =>
              /\ fpc' = "recv"
              /\ pending' = NoEvent /\ fev' = NoEvent
              /\ UNCHANGED <<queue, stream, wire>>]_vars
    /\ [][BacklogSerializeFails =>
              /\ fpc' = "backlog"
              /\ queue' = Tail(queue)
              /\ UNCHANGED <<pending, fev, stream, wire>>]_vars
    /\ [](\A i \in 1..Len(wire) : wire[i].ser)
    /\ []WireFIFO

(* on one connection the forwarder sent an event, dropped the next one,
   whose serialization failed, and sent the one behind it                 *)
C18_Witness ==
    /\ Len(enqLog) = 3
    /\ ~enqLog[2].ser
    /\ wire = <<enqLog[1], enqLog[3]>>
    /\ outages = 0
    /\ stream = "open"

(* ---- C19 ---------------------------------------------------------------
   C19: handle_task_abort on a task whose worker is finished (completed,
   cancelled or panicked) when is_finished is read does nothing: the
   handle and the runner are not aborted and no TurnAborted or
   task_aborted is emitted; TurnAborted and task_aborted are emitted only
   for a task that was aborted while its worker was not finished.         *)
SkipsFinished(c, s) ==
    /\ cpc[c] = "abort"
    /\ s \in ctasks[c]
    /\ is_finished(s)
    /\ s \notin ctasks'[c]

C19_FinishedIsSkipped ==
    /\ [][\A s \in SubIds :
              is_finished(s) =>
                  /\ runnerAborts'[s] = runnerAborts[s]
                  /\ abortReq'[s] = abortReq[s]]_vars
    /\ [][\A c \in Callers, s \in SubIds :
              SkipsFinished(c, s) =>
                  /\ cpc'[c] \notin {"ab_send", "ab_emit", "ab_enq"}
                  /\ UNCHANGED <<hostEvents, sequence, cev>>]_vars
    /\ [](\A s \in SubIds :
            /\ CountType(hostEvents[s], "TurnAborted") <= runnerAborts[s]
            /\ Cardinality(HandedOf("task_aborted", s)) <= runnerAborts[s]
            /\ runnerAborts[s] >= 1 => abortReq[s])

(* the only task spawned panicked while its turn was installed; an
   abort_all_tasks call took the turn, found the worker finished and
   returned without aborting it or emitting anything                      *)
C19_Witness ==
    /\ nextSub = 2
    /\ wpc[1] = "panicked"
    /\ SpawnReturned(1)
    /\ ~active_turn.present
    /\ \A c \in Callers : cpc[c] = "idle"
    /\ runnerAborts[1] = 0
    /\ hostEvents[1] = <<>>
    /\ HandedOf("task_aborted", 1) = {}

(* ---- C20 ---------------------------------------------------------------
   C20: whenever no spawn_task or abort_all_tasks call is in progress,
   every worker that is still inside runner.run and was not cancelled is
   the task recorded in the active turn, so that at most one such worker
   exists; also after spawn_task calls that overlapped.                   *)
LiveRunners == {s \in SubIds : wpc[s] = "run" /\ ~abortReq[s]}

C20_NoOrphanWorker ==
    (\A c \in Callers : cpc[c] = "idle") =>
        /\ \A s \in LiveRunners : active_turn.present /\ s \in active_turn.tasks
        /\ Cardinality(LiveRunners) <= 1

====
